---- MODULE Spec2Model ----
(***************************************************************************)
(* TradeLocker REST facade: the service layer (app/main.py), the broker    *)
(* abstraction (app/brokers/*.py) and the HTTP handlers in front of them,  *)
(* as one state machine.  Every handler is one action: the handlers are    *)
(* `async def` functions that call the blocking service code directly, so  *)
(* a request runs to completion on the event loop before the next starts.  *)
(* A request leaves its input, its upstream calls and its result in        *)
(* `last`; Respond hands the result out and makes the process idle again.  *)
(* The upstream SDK (TLAPI) and the audit store are the environment: each  *)
(* upstream call either raises or returns, chosen nondeterministically.    *)
(***************************************************************************)
EXTENDS Integers, Sequences, FiniteSets, TLC

VARIABLES
    trading_service,   \* main.py global: "None" or "service" (a connected TradeLockerService)
    connect_attempted, \* history: TradeLockerService() has been called in this process
    connected,         \* TradeLockerBroker.connected
    tl_api,            \* TradeLockerBroker.tl_api: "None" or "api"
    dynamodb,          \* main.py global: TRUE when the audit store client exists
    audit,             \* number of OrderAuditRecords put into the audit store
    positions,         \* upstream: ids of the positions currently open at the broker
    hasRouteId,        \* upstream: whether position rows carry a routeId column
    order_data,        \* the order intent the client submits in this behaviour
    last               \* the most recent operation: input, upstream calls, outcome

vars == <<trading_service, connect_attempted, connected, tl_api, dynamodb, audit, positions,
          hasRouteId, order_data, last>>

----------------------------------------------------------------------------
(* Bounds of the model *)

MaxQty == 1          \* order quantities range over -1..MaxQty
MaxPrice == 1        \* prices and stop prices range over 0..MaxPrice
MaxOrderId == 2      \* upstream order identifiers range over 1..MaxOrderId
MaxAudit == 2        \* log_order is applied while fewer than MaxAudit records exist
MaxPos == 2          \* the broker holds positions 1..MaxPos when the process starts

----------------------------------------------------------------------------
(* Python values.  A value is tagged with its type so that None, numbers   *)
(* and strings can sit in the same dict.                                   *)

None == [t |-> "none"]
Num(n) == [t |-> "num", v |-> n]
Str(s) == [t |-> "str", s |-> s]
Bool(b) == [t |-> "bool", b |-> b]
PyDict(d) == [t |-> "dict", d |-> d]
PyList(l) == [t |-> "list", l |-> l]

\* bool(v): Python truthiness
Truthy(v) ==
    CASE v.t = "none" -> FALSE
      [] v.t = "num"  -> v.v # 0
      [] v.t = "str"  -> v.s # ""
      [] v.t = "bool" -> v.b
      [] v.t = "dict" -> DOMAIN v.d # {}
      [] v.t = "list" -> v.l # <<>>

\* str(v)
PyStr(v) ==
    CASE v.t = "none" -> "None"
      [] v.t = "num"  -> ToString(v.v)
      [] v.t = "str"  -> v.s
      [] v.t = "bool" -> IF v.b THEN "True" ELSE "False"
      [] v.t = "dict" -> "{" \o (IF "id" \in DOMAIN v.d
                                  THEN "'id': " \o ToString(v.d["id"].v) ELSE "")
                             \o (IF "status" \in DOMAIN v.d
                                  THEN ", 'status': '" \o v.d["status"].s \o "'" ELSE "")
                             \o "}"

\* d.get(k): the value under k, None when the key is absent
Get(d, k) == IF k \in DOMAIN d THEN d[k] ELSE None

\* d.get(k, default)
GetOr(d, k, default) == IF k \in DOMAIN d THEN d[k] ELSE default

\* str(KeyError(k))
KeyError(k) == "'" \o k \o "'"

\* an operation either returns a value or raises an exception with a message
Ret(v) == [kind |-> "return", val |-> v]
Raise(m) == [kind |-> "raise", msg |-> m]

\* one upstream SDK call with its keyword arguments and its outcome, as recorded in last.calls
Call(fn, params, res) == [fn |-> fn, params |-> params, res |-> res]

\* datetime.now(timezone.utc).isoformat(); the clock is not modelled
Now == Str("<utc-iso-timestamp>")

\* messages an upstream failure can carry; str(e) is empty for an exception without arguments
ErrMsgs == {"upstream failure", ""}

----------------------------------------------------------------------------
(* Upstream data *)

\* the instrument catalog get_all_instruments returns
InstrumentCatalog ==
    << [id |-> 1, tradableInstrumentId |-> 101, name |-> "BTCUSD.TTF", symbol |-> "BTCUSD.TTF"],
       [id |-> 2, tradableInstrumentId |-> 102, name |-> "ETHUSD.TTF", symbol |-> "ETHUSD.TTF"] >>

\* outcomes of tl_api.get_all_instruments()
InstrumentsOutcomes == {Raise(m) : m \in ErrMsgs} \cup {Ret(InstrumentCatalog)}

\* outcomes of tl_api.create_order(**params): a failure, the new order's
\* identifier, or (what TradeLockerBroker expects) a mapping that holds it
CreateOutcomes ==
    {Raise(m) : m \in ErrMsgs}
    \cup {Ret(Num(n)) : n \in 1..MaxOrderId}
    \cup {Ret(PyDict([id |-> Num(1)])), Ret(PyDict([id |-> Num(1), status |-> Str("pending")]))}

\* the upstream accepted the order and returned its identifier
Accepted(createR) == createR.kind = "return" /\ createR.val.t = "num"

----------------------------------------------------------------------------
(* Order intents *)

\* the dicts that hold key k with a value of S, or do not hold k
Opt(k, S) == {<<>>} \cup {k :> v : v \in S}

\* every union of one dict of A with one dict of B (their keys are disjoint)
Both(A, B) == {a @@ b : a \in A, b \in B}

Quantities == {None} \cup {Num(n) : n \in -1..MaxQty}
Prices == {Num(n) : n \in 0..MaxPrice}
Validities == {None, Str("GTC"), Str("IOC")}
OrderTypes == {Str("market"), Str("limit"), Str("stop"), Str("stop_limit")}

\* intents that exercise validation: any of the required fields absent or bad
ValidationIntents ==
    Both(Both(Opt("symbol", {Str("BTCUSD.TTF"), Str("BTCUSD"), Str("btcusd.ttf")}),
              Opt("order_type", {Str("market"), Str("bogus")})),
         Both(Opt("side", {Str("buy"), Str("hold")}),
              Opt("quantity", Quantities)))

\* well-formed intents over every order type, validity, price and stop price
BuildIntents ==
    Both(Both({[symbol |-> Str("BTCUSD.TTF"), side |-> Str("sell"), quantity |-> Num(1)]},
              {"order_type" :> ty : ty \in OrderTypes}),
         Both(Opt("validity", Validities),
              Both(Opt("price", Prices), Opt("stop_price", Prices))))

\* well-formed intents over every combination of the protective-order fields
ProtectiveIntents ==
    Both(Both({[symbol |-> Str("ETHUSD.TTF"), side |-> Str("buy"), quantity |-> Num(1),
                price |-> Num(1)]},
              {[order_type |-> Str("limit")], [order_type |-> Str("stop_limit")],
               [order_type |-> Str("stop_limit"), stop_price |-> Num(1)]}),
         Both(Both(Both(Opt("stop_loss", {Num(1)}), Opt("stop_loss_type", {Str("absolute")})),
                   Both(Opt("take_profit", {Num(1)}), Opt("take_profit_type", {Str("offset")}))),
              Opt("trailing_distance", {Num(1)})))

Intents == ValidationIntents \cup BuildIntents \cup ProtectiveIntents

\* the few intents used where the order itself is not what is examined
SampleIntents ==
    { [symbol |-> Str("BTCUSD.TTF"), order_type |-> Str("market"), side |-> Str("buy"),
       quantity |-> Num(1)],
      [symbol |-> Str("BTCUSD"), order_type |-> Str("limit"), side |-> Str("sell"),
       quantity |-> Num(0), price |-> Num(1)],
      [symbol |-> Str("BTCUSD.TTF"), side |-> Str("buy")] }

----------------------------------------------------------------------------
(* Response envelopes *)

\* TradeLockerService._error_response
error_response(error) ==
    [success |-> Bool(FALSE), error |-> Str(error), timestamp |-> Now]

\* BaseBroker.standardize_response; data is a dict (<<>> when not given),
\* error a string ("" stands for a message that is falsy)
standardize_response(success, data, error) ==
    LET response == [success |-> Bool(success), timestamp |-> Now] IN
    IF success /\ Truthy(PyDict(data)) THEN data @@ response
    ELSE IF ~success /\ Truthy(Str(error)) THEN ("error" :> Str(error)) @@ response
    ELSE response

\* a service method without its except clause: the exception leaves the method
ServiceCatch_reraise(r) == r

\* `except Exception as e: return self._error_response(str(e))` of the service methods
ServiceCatch(r) ==
    IF r.out.kind = "raise" THEN [r EXCEPT !.out = Ret(error_response(r.out.msg))] ELSE r

\* `except Exception as e: return self.standardize_response(False, error=str(e))`
BrokerCatch(r) ==
    IF r.out.kind = "raise"
    THEN [r EXCEPT !.out = Ret(standardize_response(FALSE, <<>>, r.out.msg))] ELSE r

----------------------------------------------------------------------------
(* TradeLockerService.create_order *)

\* d with key k set to v when cond holds
With(d, cond, k, v) == IF cond THEN (k :> v) @@ d ELSE d

\* the first key of ks that d does not hold, "" when it holds them all
FirstMissing(d, ks) ==
    LET miss == SelectSeq(ks, LAMBDA k : k \notin DOMAIN d) IN
    IF miss = <<>> THEN "" ELSE Head(miss)

\* a catalog lookup that ignores case
Matching_ignoring_case(rows, column, symbol) ==
    LET Upper(s) == IF s = "btcusd.ttf" THEN "BTCUSD.TTF" ELSE s IN
    SelectSeq(rows, LAMBDA row : symbol.t = "str" /\ Upper(row[column]) = Upper(symbol.s))

\* instruments[instruments[column] == symbol]: the rows whose column equals the symbol
Matching(rows, column, symbol) ==
    SelectSeq(rows, LAMBDA row : Str(row[column]) = symbol)

\* the `validity` entry of order_params (main.py 185-190)
TradeLockerService_validity(od) ==
    LET v == GetOr(od, "validity",
                   IF od["order_type"] = Str("market") THEN Str("IOC") ELSE Str("GTC")) IN
    IF od["order_type"] # Str("market") /\ ~Truthy(Get(od, "validity"))
    THEN Str("GTC") ELSE v

\* order_params as TradeLockerService.create_order builds them (main.py 179-219)
TradeLockerService_order_params(od, instrument_id) ==
    LET ty == od["order_type"]
        p0 == [instrument_id |-> Num(instrument_id),
               quantity |-> od["quantity"],
               side |-> od["side"],
               type_ |-> ty,
               validity |-> TradeLockerService_validity(od)]
        p1 == With(p0, ty = Str("limit") /\ Truthy(Get(od, "price")),
                   "price", Get(od, "price"))
        p2 == With(p1, ty = Str("stop") /\ Truthy(Get(od, "stop_price")),
                   "stop_price", Get(od, "stop_price"))
        p3 == With(p2, ty = Str("stop_limit") /\ Truthy(Get(od, "stop_price")),
                   "stop_price", Get(od, "stop_price"))
        p4 == With(p3, ty = Str("stop_limit") /\ Truthy(Get(od, "stop_price"))
                         /\ Truthy(Get(od, "price")),
                   "price", Get(od, "price"))
        p5 == With(p4, Truthy(Get(od, "stop_loss")),
                   "stop_loss", Get(od, "stop_loss"))
        p6 == With(p5, Truthy(Get(od, "stop_loss"))
                         /\ Truthy(Get(od, "stop_loss_type")),
                   "stop_loss_type", Get(od, "stop_loss_type"))
        p7 == With(p6, Truthy(Get(od, "take_profit")),
                   "take_profit", Get(od, "take_profit"))
        p8 == With(p7, Truthy(Get(od, "take_profit"))
                         /\ Truthy(Get(od, "take_profit_type")),
                   "take_profit_type", Get(od, "take_profit_type"))
    IN  With(p8, Truthy(Get(od, "trailing_distance")),
             "trailing_distance", Get(od, "trailing_distance"))

\* the body of the try block of TradeLockerService.create_order, given the
\* outcomes of the two upstream calls it can make
TradeLockerService_create_order_body(od, instrR, createR) ==
    LET c1 == <<Call("get_all_instruments", <<>>, instrR)>> IN
    IF instrR.kind = "raise" THEN [out |-> instrR, calls |-> c1]
    ELSE IF "symbol" \notin DOMAIN od THEN [out |-> Raise(KeyError("symbol")), calls |-> c1]
    ELSE
      LET instrument == Matching(instrR.val, "name", od["symbol"]) IN
      IF instrument = <<>>
      THEN [out |-> Ret(error_response("Instrument " \o PyStr(od["symbol"]) \o " not found")),
            calls |-> c1]
      ELSE IF FirstMissing(od, <<"quantity", "side", "order_type">>) # ""
      THEN [out |-> Raise(KeyError(FirstMissing(od, <<"quantity", "side", "order_type">>))),
            calls |-> c1]
      ELSE
        LET row == instrument[1]
            instrument_id == IF "tradableInstrumentId" \in DOMAIN row
                             THEN row.tradableInstrumentId ELSE row.id
            params == TradeLockerService_order_params(od, instrument_id)
            c2 == Append(c1, Call("create_order", params, createR))
        IN  IF createR.kind = "raise" THEN [out |-> createR, calls |-> c2]
            ELSE [out |-> Ret([success |-> Bool(TRUE),
                               order_id |-> Str(PyStr(createR.val)),
                               status |-> Str("created"),
                               message |-> Str("Order created successfully"),
                               timestamp |-> Now]),
                  calls |-> c2]

TradeLockerService_create_order(od, instrR, createR) ==
    ServiceCatch(TradeLockerService_create_order_body(od, instrR, createR))

----------------------------------------------------------------------------
(* BaseBroker.validate_order_data and TradeLockerBroker.create_order *)

RECURSIVE Join(_)
\* ', '.join(seq)
Join(seq) ==
    IF seq = <<>> THEN ""
    ELSE IF Len(seq) = 1 THEN seq[1]
    ELSE seq[1] \o ", " \o Join(Tail(seq))

\* a list of required fields that leaves out the side
required_fields_without_side == <<"symbol", "order_type", "quantity">>

required_fields == <<"symbol", "order_type", "side", "quantity">>

valid_order_types == <<"market", "limit", "stop", "stop_limit">>

valid_sides == <<"buy", "sell">>

\* v in list_of_strings
InList(v, list) == v.t = "str" /\ \E i \in 1..Len(list) : list[i] = v.s

\* BaseBroker.validate_order_data: returns a dict, or raises when the
\* quantity cannot be compared with 0
validate_order_data(od) ==
    LET missing_fields == SelectSeq(required_fields, LAMBDA f : f \notin DOMAIN od) IN
    IF missing_fields # <<>>
    THEN Ret([success |-> Bool(FALSE),
              error |-> Str("Missing required fields: " \o Join(missing_fields))])
    ELSE IF ~InList(Get(od, "order_type"), valid_order_types)
    THEN Ret([success |-> Bool(FALSE),
              error |-> Str("Invalid order_type. Must be one of: " \o Join(valid_order_types))])
    ELSE IF ~InList(Get(od, "side"), valid_sides)
    THEN Ret([success |-> Bool(FALSE),
              error |-> Str("Invalid side. Must be one of: " \o Join(valid_sides))])
    ELSE IF GetOr(od, "quantity", Num(0)).t # "num"
    THEN Raise("'<=' not supported between instances of 'NoneType' and 'int'")
    ELSE IF GetOr(od, "quantity", Num(0)).v <= 0
    THEN Ret([success |-> Bool(FALSE), error |-> Str("Quantity must be greater than 0")])
    ELSE Ret([success |-> Bool(TRUE), data |-> PyDict(od)])

\* a connection test that looks at the handle only
is_connected_handle_only == tl_api # "None"

\* TradeLockerBroker.is_connected
is_connected == connected /\ tl_api # "None"

\* order_params as TradeLockerBroker.create_order builds them (tradelocker.py 202-213)
TradeLockerBroker_order_params(od, instrument_id) ==
    LET ty == od["order_type"]
        p0 == [instrument_id |-> Num(instrument_id),
               quantity |-> od["quantity"],
               side |-> od["side"],
               type_ |-> ty,
               validity |-> GetOr(od, "validity",
                                  IF ty = Str("market") THEN Str("IOC") ELSE Str("GTC"))]
    IN  With(p0, ty = Str("limit") /\ Truthy(Get(od, "price")),
             "price", Get(od, "price"))

\* order_result.get(k, default) of tradelocker.py 219-226: only a mapping has .get
ResultGet(order_result, k, default) ==
    IF order_result.t = "dict" THEN Ret(GetOr(order_result.d, k, default))
    ELSE Raise("'int' object has no attribute 'get'")

\* the body of the try block of TradeLockerBroker.create_order
TradeLockerBroker_create_order_body(od, instrR, createR) ==
    IF ~is_connected
    THEN [out |-> Ret(standardize_response(FALSE, <<>>, "Not connected to TradeLocker")),
          calls |-> <<>>]
    ELSE
      LET validation == validate_order_data(od) IN
      IF validation.kind = "raise" THEN [out |-> validation, calls |-> <<>>]
      ELSE IF ~validation.val.success.b
      THEN [out |-> Ret(standardize_response(FALSE, <<>>, validation.val.error.s)),
            calls |-> <<>>]
      ELSE
        LET data == validation.val.data.d
            c1 == <<Call("get_all_instruments", <<>>, instrR)>>
        IN
        IF instrR.kind = "raise" THEN [out |-> instrR, calls |-> c1]
        ELSE
          LET instrument == Matching(instrR.val, "symbol", data["symbol"]) IN
          IF instrument = <<>>
          THEN [out |-> Ret(standardize_response(FALSE, <<>>,
                              "Instrument " \o PyStr(data["symbol"]) \o " not found")),
                calls |-> c1]
          ELSE
            LET params == TradeLockerBroker_order_params(data, instrument[1].id)
                c2 == Append(c1, Call("create_order", params, createR))
            IN
            IF createR.kind = "raise" THEN [out |-> createR, calls |-> c2]
            ELSE
              LET id == ResultGet(createR.val, "id", None)
                  status == ResultGet(createR.val, "status", Str("created"))
              IN  IF id.kind = "raise" THEN [out |-> id, calls |-> c2]
                  ELSE [out |-> Ret(standardize_response(TRUE,
                                      [order_id |-> Str(PyStr(id.val)),
                                       status |-> status.val,
                                       message |-> Str("Order created successfully")], "")),
                        calls |-> c2]

TradeLockerBroker_create_order(od, instrR, createR) ==
    BrokerCatch(TradeLockerBroker_create_order_body(od, instrR, createR))

----------------------------------------------------------------------------
(* Upstream accounts and positions *)

AllPositions == 1..MaxPos

\* the row of position id: odd ids are long, even ids short (negative quantity)
PositionRow(id) ==
    LET row == [id |-> id,
                side |-> IF id % 2 = 1 THEN "buy" ELSE "sell",
                qty |-> IF id % 2 = 1 THEN 2 ELSE -3,
                avgPrice |-> 100,
                unrealizedPl |-> IF id % 2 = 1 THEN 5 ELSE -4,
                tradableInstrumentId |-> 100 + id]
    IN  IF hasRouteId THEN ("routeId" :> 7) @@ row ELSE row

\* the positions frame for the open positions S, by increasing id
PositionRows(S) ==
    [i \in 1..Cardinality(S) |->
        PositionRow(CHOOSE id \in S : Cardinality({j \in S : j < id}) = i - 1)]

\* outcomes of tl_api.get_all_positions() while the positions S are open
PositionsOutcomes(S) == {Raise(m) : m \in ErrMsgs} \cup {Ret(PositionRows(S))}

\* row without the columns of drop
Without(row, drop) == [k \in DOMAIN row \ drop |-> row[k]]

\* the positions frame as get_account_details may see it: a frame has the same
\* columns in every row; qty, avgPrice and the P&L column may each be absent,
\* and the P&L column is named unrealizedPl or unrealizedPnl
PositionFrames(S) ==
    {[i \in 1..Cardinality(S) |-> Without(PositionRows(S)[i], drop)] :
        drop \in SUBSET {"qty", "avgPrice", "unrealizedPl"}}
    \cup {[i \in 1..Cardinality(S) |->
            ("unrealizedPnl" :> PositionRows(S)[i].unrealizedPl)
            @@ Without(PositionRows(S)[i], {"unrealizedPl"})]}

\* outcomes of tl_api.get_all_positions() in get_account_details
AccountPositionsOutcomes(S) ==
    {Raise(m) : m \in ErrMsgs} \cup {Ret(frame) : frame \in PositionFrames(S)}

Account(id, balance) ==
    [id |-> id, name |-> "demo", currency |-> "USD", accountBalance |-> balance,
     status |-> "ACTIVE"]

\* outcomes of tl_api.get_all_accounts()
AccountsOutcomes ==
    {Raise(m) : m \in ErrMsgs}
    \cup {Ret(<<>>), Ret(<<Account(1, 1000)>>), Ret(<<Account(1, 1000), Account(2, 500)>>)}

\* outcomes of tl_api.get_all_orders()
OrdersOutcomes ==
    {Raise(m) : m \in ErrMsgs} \cup {Ret(<<>>), Ret(<<[id |-> 1, status |-> "pending"]>>)}

----------------------------------------------------------------------------
(* Read operations of TradeLockerService *)

\* get_accounts / get_instruments / get_orders / get_positions: one upstream
\* call fn with outcome upR, its frame returned as records under key
ServiceList_body(fn, key, upR) ==
    LET c1 == <<Call(fn, <<>>, upR)>> IN
    IF upR.kind = "raise" THEN [out |-> upR, calls |-> c1]
    ELSE [out |-> Ret((key :> PyList(upR.val)) @@ [success |-> Bool(TRUE)]), calls |-> c1]

TradeLockerService_get_accounts(upR) ==
    ServiceCatch(ServiceList_body("get_all_accounts", "accounts", upR))

TradeLockerService_get_instruments(upR) ==
    ServiceCatch(ServiceList_body("get_all_instruments", "instruments", upR))

TradeLockerService_get_orders(upR) ==
    ServiceCatch(ServiceList_body("get_all_orders", "orders", upR))

TradeLockerService_get_positions(upR) ==
    ServiceCatch(ServiceList_body("get_all_positions", "positions", upR))

\* a cancel_order that forwards the cancellation upstream
TradeLockerService_cancel_order_upstream(order_id) ==
    ServiceCatch([out |-> Ret([success |-> Bool(TRUE),
                               order_id |-> Str(order_id),
                               status |-> Str("cancelled"),
                               message |-> Str("Order cancelled successfully"),
                               timestamp |-> Now]),
                  calls |-> <<Call("delete_order", [order_id |-> Str(order_id)], Ret(None))>>])

\* TradeLockerService.cancel_order: a placeholder, no upstream call
TradeLockerService_cancel_order(order_id) ==
    ServiceCatch([out |-> Ret([success |-> Bool(TRUE),
                               order_id |-> Str(order_id),
                               status |-> Str("cancelled"),
                               message |-> Str("Order cancelled successfully"),
                               timestamp |-> Now]),
                  calls |-> <<>>])

----------------------------------------------------------------------------
(* get_account_details *)

Abs(n) == IF n < 0 THEN -n ELSE n

RECURSIVE GCD(_, _)
GCD(a, b) == IF b = 0 THEN Abs(a) ELSE GCD(b, a % b)

\* the number n/d (d > 0): a float of the program, kept exact
Rat(n, d) ==
    LET g == GCD(Abs(n), d) IN
    IF d \div g = 1 THEN Num(n \div g) ELSE [t |-> "rat", n |-> n \div g, d |-> d \div g]

RECURSIVE PositionsValue_signed(_)
\* a total that adds qty * avgPrice with its sign
PositionsValue_signed(rows) ==
    IF rows = <<>> THEN 0
    ELSE (IF {"qty", "avgPrice"} \subseteq DOMAIN Head(rows)
          THEN Head(rows).qty * Head(rows).avgPrice ELSE 0)
         + PositionsValue_signed(Tail(rows))

RECURSIVE PositionsValue(_)
\* total_positions_value: the sum of |qty * avgPrice| over the rows that have both
PositionsValue(rows) ==
    IF rows = <<>> THEN 0
    ELSE (IF {"qty", "avgPrice"} \subseteq DOMAIN Head(rows)
          THEN Abs(Head(rows).qty * Head(rows).avgPrice) ELSE 0)
         + PositionsValue(Tail(rows))

RECURSIVE UnrealizedPnl(_, _)
\* unrealized_pnl: the sum of row[key] over the rows that have qty, avgPrice and key
UnrealizedPnl(rows, key) ==
    IF rows = <<>> THEN 0
    ELSE (IF {"qty", "avgPrice", key} \subseteq DOMAIN Head(rows)
          THEN Head(rows)[key] ELSE 0)
         + UnrealizedPnl(Tail(rows), key)

\* a margin level that is the plain ratio of equity to margin used
margin_level_ratio(equity, total_positions_value) ==
    IF total_positions_value > 0
    THEN Rat(equity * 100, total_positions_value) ELSE Num(0)

\* margin_level = (equity / margin_used * 100) if margin_used > 0 else 0,
\* with margin_used = total_positions_value * 0.01
margin_level(equity, total_positions_value) ==
    IF total_positions_value > 0
    THEN Rat(equity * 100 * 100, total_positions_value) ELSE Num(0)

\* an account lookup that takes the last account of the list
first_account_last(accounts) == accounts[Len(accounts)]

\* accounts.iloc[0]
first_account(accounts) == accounts[1]

\* response_data of get_account_details for the first account and the position rows
AccountMetrics(account, rows, pnlKey) ==
    LET total_positions_value == PositionsValue(rows)
        unrealized_pnl == UnrealizedPnl(rows, pnlKey)
        balance == account.accountBalance
        equity == balance + unrealized_pnl
        margin_used == Rat(total_positions_value, 100)
        margin_available == Rat(100 * balance - total_positions_value, 100)
    IN  [account_id |-> Num(account.id),
         account_name |-> Str(account.name),
         currency |-> Str(account.currency),
         balance |-> Num(balance),
         equity |-> Num(equity),
         margin_used |-> margin_used,
         margin_available |-> margin_available,
         margin_level |-> margin_level(equity, total_positions_value),
         free_margin |-> margin_available,
         total_positions_value |-> Num(total_positions_value),
         unrealized_pnl |-> Num(unrealized_pnl),
         positions_count |-> Num(Len(rows)),
         account_status |-> Str(account.status),
         positions |-> PyList(rows)]

TradeLockerService_get_account_details_body(accR, posR) ==
    LET c1 == <<Call("get_all_accounts", <<>>, accR)>> IN
    IF accR.kind = "raise" THEN [out |-> accR, calls |-> c1]
    ELSE IF accR.val = <<>>
    THEN [out |-> Ret(error_response("No accounts found")), calls |-> c1]
    ELSE
      LET c2 == Append(c1, Call("get_all_positions", <<>>, posR)) IN
      IF posR.kind = "raise" THEN [out |-> posR, calls |-> c2]
      ELSE [out |-> Ret(AccountMetrics(first_account(accR.val), posR.val, "unrealizedPl")
                        @@ [success |-> Bool(TRUE), timestamp |-> Now]),
            calls |-> c2]

TradeLockerService_get_account_details(accR, posR) ==
    ServiceCatch(TradeLockerService_get_account_details_body(accR, posR))

----------------------------------------------------------------------------
(* TradeLockerService.get_current_price *)

estimated_price == 114000

\* a market-data object with ask and bid attributes
Quote(ask, bid) == [t |-> "quote", ask |-> ask, bid |-> bid]

\* outcomes of tl_api.get_market_data(id): a failure (the SDK may not have
\* the method at all), nothing, or a quote
MarketDataOutcomes ==
    {Raise(m) : m \in ErrMsgs} \cup {Ret(None), Ret(Quote(114010, 113990)), Ret(Quote(3001, 2999))}

TradeLockerService_get_current_price_body(symbol, instrR, mdR) ==
    LET c1 == <<Call("get_all_instruments", <<>>, instrR)>> IN
    IF instrR.kind = "raise" THEN [out |-> instrR, calls |-> c1]
    ELSE
      LET instrument == SelectSeq(instrR.val, LAMBDA row : row.name = symbol) IN
      IF instrument = <<>>
      THEN [out |-> Ret(error_response("Instrument " \o symbol \o " not found")), calls |-> c1]
      ELSE
        LET instrument_id == instrument[1].id
            tradable_instrument_id ==
                IF "tradableInstrumentId" \in DOMAIN instrument[1]
                THEN instrument[1].tradableInstrumentId ELSE instrument_id
            c2 == Append(c1, Call("get_market_data",
                                  [instrument_id |-> Num(tradable_instrument_id)], mdR))
        IN
        IF mdR.kind = "return" /\ mdR.val.t = "quote"
        THEN [out |-> Ret([success |-> Bool(TRUE),
                           symbol |-> Str(symbol),
                           instrument_id |-> Num(instrument_id),
                           ask_price |-> Num(mdR.val.ask),
                           bid_price |-> Num(mdR.val.bid),
                           timestamp |-> Now]),
              calls |-> c2]
        ELSE [out |-> Ret([success |-> Bool(TRUE),
                           symbol |-> Str(symbol),
                           instrument_id |-> Num(instrument_id),
                           ask_price |-> Num(estimated_price + 10),
                           bid_price |-> Num(estimated_price - 10),
                           timestamp |-> Now,
                           note |-> Str("Estimated price - real market data not available")]),
              calls |-> c2]

TradeLockerService_get_current_price(symbol, instrR, mdR) ==
    ServiceCatch(TradeLockerService_get_current_price_body(symbol, instrR, mdR))

----------------------------------------------------------------------------
(* TradeLockerService.close_position *)

\* the position ids a request can name: those of the positions, one that is
\* no position, and one that is no number
PositionIds == {ToString(n) : n \in 1..MaxPos + 1} \cup {"abc"}

\* int(s) for the strings of PositionIds
ParseInt(s) ==
    IF \E n \in 0..MaxPos + 1 : ToString(n) = s
    THEN Ret(CHOOSE n \in 0..MaxPos + 1 : ToString(n) = s)
    ELSE Raise("invalid literal for int() with base 10: '" \o s \o "'")

\* outcomes of tl_api.close_position(id): a failure, or a result (nothing, or
\* a number) with the position closed at the broker or left open
CloseOutcomes ==
    {Raise(m) : m \in ErrMsgs}
    \cup {[kind |-> "return", val |-> v, closed |-> c] :
            v \in {None} \cup {Num(n) : n \in 0..MaxOrderId}, c \in BOOLEAN}

\* the open positions after the upstream close call with outcome closeR
AfterClose(S, id, closeR) ==
    IF closeR.kind = "return" /\ closeR.closed THEN S \ {id} ELSE S

\* frame[frame['id'] == id]
RowsWithId(rows, id) == SelectSeq(rows, LAMBDA row : row.id = id)

\* an offsetting order on the position's own side
close_side_same(position_data) == position_data.side

\* the side of the offsetting order
close_side(position_data) == IF position_data.side = "buy" THEN "sell" ELSE "buy"

\* close_order_params (main.py 509-518)
close_order_params(position_data) ==
    [instrument_id |-> Num(position_data.tradableInstrumentId),
     quantity |-> Num(Abs(position_data.qty)),
     side |-> Str(close_side(position_data)),
     type_ |-> Str("market"),
     validity |-> Str("IOC")]

\* a Method 2 whose failure is reported with the bare message
OffsettingOrder_bare_error(position_id, position_data, calls, createR) ==
    LET c == Append(calls, Call("create_order", close_order_params(position_data), createR)) IN
    IF createR.kind = "raise"
    THEN [out |-> Ret(error_response(createR.msg)), calls |-> c]
    ELSE [out |-> Ret([success |-> Bool(TRUE),
                       order_id |-> Str(PyStr(createR.val)),
                       position_id |-> Str(position_id),
                       status |-> Str("closed"),
                       message |-> Str("Position closed by creating opposite order "
                                       \o PyStr(createR.val)
                                       \o " (original position remains for audit)"),
                       timestamp |-> Now]),
          calls |-> c]

\* a close_position that gives up where Method 2 would start
OffsettingOrder_give_up(position_id, position_data, calls, createR) ==
    [out |-> Ret(error_response("Failed to close position")), calls |-> calls]

\* an offsetting order that is submitted a second time when it fails
OffsettingOrder_retry(position_id, position_data, calls, createR) ==
    LET again == IF createR.kind = "raise"
                 THEN Append(calls, Call("create_order", close_order_params(position_data),
                                         createR))
                 ELSE calls
    IN  OffsettingOrder_bare_error(position_id, position_data, again, createR)

\* Method 2 of close_position: the offsetting market order, after the calls made so far
OffsettingOrder(position_id, position_data, calls, createR) ==
    LET c == Append(calls, Call("create_order", close_order_params(position_data), createR)) IN
    IF createR.kind = "raise"
    THEN [out |-> Ret(error_response("Failed to close position: " \o createR.msg)), calls |-> c]
    ELSE [out |-> Ret([success |-> Bool(TRUE),
                       order_id |-> Str(PyStr(createR.val)),
                       position_id |-> Str(position_id),
                       status |-> Str("closed"),
                       message |-> Str("Position closed by creating opposite order "
                                       \o PyStr(createR.val)
                                       \o " (original position remains for audit)"),
                       timestamp |-> Now]),
          calls |-> c]

\* a Method 1 return that reports the position id whatever the close call gave
DirectCloseSuccess_position_id(position_id, result) ==
    [success |-> Bool(TRUE),
     order_id |-> Str(position_id),
     position_id |-> Str(position_id),
     status |-> Str("closed"),
     message |-> Str("Position closed successfully"),
     timestamp |-> Now]

\* the return of Method 1 once the re-query no longer shows the position
DirectCloseSuccess(position_id, result) ==
    [success |-> Bool(TRUE),
     order_id |-> IF Truthy(result) THEN Str(PyStr(result)) ELSE Str(position_id),
     position_id |-> Str(position_id),
     status |-> Str("closed"),
     message |-> Str("Position closed successfully"),
     timestamp |-> Now]

\* the body of the outer try block of close_position, given the outcomes of
\* the upstream calls it can make: the first position query, the direct
\* close, the re-query and the offsetting order
TradeLockerService_close_position_body(position_id, pos1R, closeR, pos2R, createR) ==
    LET c1 == <<Call("get_all_positions", <<>>, pos1R)>> IN
    IF pos1R.kind = "raise" THEN [out |-> pos1R, calls |-> c1]
    ELSE IF ParseInt(position_id).kind = "raise"
    THEN [out |-> ParseInt(position_id), calls |-> c1]
    ELSE
      LET id == ParseInt(position_id).val
          position == RowsWithId(pos1R.val, id)
      IN
      IF position = <<>>
      THEN [out |-> Ret(error_response("Position " \o position_id \o " not found")),
            calls |-> c1]
      ELSE
        LET position_data == position[1] IN
        IF "routeId" \notin DOMAIN position_data
        THEN OffsettingOrder(position_id, position_data, c1, createR)
        ELSE
          LET c2 == Append(c1, Call("close_position", [position_id |-> Num(id)], closeR)) IN
          IF closeR.kind = "raise"
          THEN OffsettingOrder(position_id, position_data, c2, createR)
          ELSE
            LET c3 == Append(c2, Call("get_all_positions", <<>>, pos2R)) IN
            IF pos2R.kind = "raise"
            THEN OffsettingOrder(position_id, position_data, c3, createR)
            ELSE IF RowsWithId(pos2R.val, id) = <<>>
            THEN [out |-> Ret(DirectCloseSuccess(position_id, closeR.val)), calls |-> c3]
            ELSE OffsettingOrder(position_id, position_data, c3, createR)

TradeLockerService_close_position(position_id, pos1R, closeR, pos2R, createR) ==
    ServiceCatch(TradeLockerService_close_position_body(position_id, pos1R, closeR, pos2R,
                                                       createR))

\* the open positions after close_position ran with these outcomes: the
\* upstream close call, when it was made, may have closed the position
PositionsAfter(calls) ==
    LET made == SelectSeq(calls, LAMBDA c : c.fn = "close_position") IN
    IF made = <<>> THEN positions
    ELSE AfterClose(positions, made[1].params["position_id"].v, made[1].res)

----------------------------------------------------------------------------
(* TradeLockerBroker: the operations besides create_order *)

NotConnected == standardize_response(FALSE, <<>>, "Not connected to TradeLocker")

\* get_accounts / get_instruments / get_orders / get_positions of the broker
BrokerList_body(fn, key, upR) ==
    IF ~is_connected THEN [out |-> Ret(NotConnected), calls |-> <<>>]
    ELSE
      LET c1 == <<Call(fn, <<>>, upR)>> IN
      IF upR.kind = "raise" THEN [out |-> upR, calls |-> c1]
      ELSE [out |-> Ret(standardize_response(TRUE, key :> PyList(upR.val), "")), calls |-> c1]

TradeLockerBroker_get_accounts(upR) ==
    BrokerCatch(BrokerList_body("get_all_accounts", "accounts", upR))

TradeLockerBroker_get_instruments(upR) ==
    BrokerCatch(BrokerList_body("get_all_instruments", "instruments", upR))

TradeLockerBroker_get_orders(upR) ==
    BrokerCatch(BrokerList_body("get_all_orders", "orders", upR))

TradeLockerBroker_get_positions(upR) ==
    BrokerCatch(BrokerList_body("get_all_positions", "positions", upR))

TradeLockerBroker_get_account_details_body(accR, posR) ==
    IF ~is_connected THEN [out |-> Ret(NotConnected), calls |-> <<>>]
    ELSE
      LET c1 == <<Call("get_all_accounts", <<>>, accR)>> IN
      IF accR.kind = "raise" THEN [out |-> accR, calls |-> c1]
      ELSE IF accR.val = <<>>
      THEN [out |-> Ret(standardize_response(FALSE, <<>>, "No accounts found")), calls |-> c1]
      ELSE
        LET c2 == Append(c1, Call("get_all_positions", <<>>, posR)) IN
        IF posR.kind = "raise" THEN [out |-> posR, calls |-> c2]
        ELSE [out |-> Ret(standardize_response(TRUE,
                            AccountMetrics(first_account(accR.val), posR.val, "unrealizedPnl"), "")),
              calls |-> c2]

TradeLockerBroker_get_account_details(accR, posR) ==
    BrokerCatch(TradeLockerBroker_get_account_details_body(accR, posR))

\* outcomes of tl_api.get_instrument_price(id): a failure or a mapping
PriceOutcomes ==
    {Raise(m) : m \in ErrMsgs}
    \cup {Ret(PyDict([ask |-> Num(3001), bid |-> Num(2999)])), Ret(PyDict(<<>>))}

TradeLockerBroker_get_current_price_body(symbol, instrR, priceR) ==
    IF ~is_connected THEN [out |-> Ret(NotConnected), calls |-> <<>>]
    ELSE
      LET c1 == <<Call("get_all_instruments", <<>>, instrR)>> IN
      IF instrR.kind = "raise" THEN [out |-> instrR, calls |-> c1]
      ELSE
        LET instrument == SelectSeq(instrR.val, LAMBDA row : row.symbol = symbol) IN
        IF instrument = <<>>
        THEN [out |-> Ret(standardize_response(FALSE, <<>>,
                            "Instrument " \o symbol \o " not found")),
              calls |-> c1]
        ELSE
          LET instrument_id == instrument[1].id
              c2 == Append(c1, Call("get_instrument_price",
                                    [instrument_id |-> Num(instrument_id)], priceR))
          IN
          IF priceR.kind = "raise" THEN [out |-> priceR, calls |-> c2]
          ELSE [out |-> Ret(standardize_response(TRUE,
                              [symbol |-> Str(symbol),
                               instrument_id |-> Num(instrument_id),
                               ask_price |-> GetOr(priceR.val.d, "ask", Num(0)),
                               bid_price |-> GetOr(priceR.val.d, "bid", Num(0))], "")),
                calls |-> c2]

TradeLockerBroker_get_current_price(symbol, instrR, priceR) ==
    BrokerCatch(TradeLockerBroker_get_current_price_body(symbol, instrR, priceR))

\* TradeLockerBroker.cancel_order: a placeholder, no upstream call
TradeLockerBroker_cancel_order(order_id) ==
    BrokerCatch(
      IF ~is_connected THEN [out |-> Ret(NotConnected), calls |-> <<>>]
      ELSE [out |-> Ret(standardize_response(TRUE,
                          [order_id |-> Str(order_id),
                           status |-> Str("cancelled"),
                           message |-> Str("Order cancelled successfully")], "")),
            calls |-> <<>>])

\* TradeLockerBroker.close_position: a placeholder, no upstream call
TradeLockerBroker_close_position(position_id) ==
    BrokerCatch(
      IF ~is_connected THEN [out |-> Ret(NotConnected), calls |-> <<>>]
      ELSE [out |-> Ret(standardize_response(TRUE,
                          [position_id |-> Str(position_id),
                           status |-> Str("closed"),
                           message |-> Str("Position closed successfully")], "")),
            calls |-> <<>>])

----------------------------------------------------------------------------
(* TradeLockerService.log_order *)

\* outcomes of table.put_item(Item=item)
PutOutcomes == {Raise(m) : m \in ErrMsgs} \cup {Ret(None)}

\* the OrderAuditRecord log_order builds
AuditItem(order_id, od, status) ==
    [order_id |-> Str(order_id),
     user_id |-> GetOr(od, "user_id", Str("default")),
     symbol |-> od["symbol"],
     order_type |-> od["order_type"],
     side |-> od["side"],
     quantity |-> od["quantity"],
     price |-> GetOr(od, "price", Num(0)),
     status |-> Str(status),
     created_at |-> Now,
     updated_at |-> Now,
     stop_loss |-> GetOr(od, "stop_loss", Num(0)),
     take_profit |-> GetOr(od, "take_profit", Num(0))]

\* log_order up to its except clause: the early return without a store, then
\* the record and the put; puts is the number of records written
log_order_body(order_id, od, status, putR) ==
    IF ~dynamodb THEN [out |-> Ret(None), puts |-> 0, calls |-> <<>>]
    ELSE IF FirstMissing(od, <<"symbol", "order_type", "side", "quantity">>) # ""
    THEN [out |-> Raise(KeyError(FirstMissing(od, <<"symbol", "order_type", "side",
                                                    "quantity">>))),
          puts |-> 0, calls |-> <<>>]
    ELSE
      LET c == <<Call("put_item", AuditItem(order_id, od, status), putR)>> IN
      IF putR.kind = "raise" THEN [out |-> putR, puts |-> 0, calls |-> c]
      ELSE [out |-> Ret(None), puts |-> 1, calls |-> c]

\* a log_order without its except clause
LogCatch_reraise(r) == r

\* `except Exception as e: logger.error(...)`: the failure is logged, None returned
LogCatch(r) == IF r.out.kind = "raise" THEN [r EXCEPT !.out = Ret(None)] ELSE r

\* TradeLockerService.log_order
log_order(order_id, od, status, putR) ==
    LogCatch(log_order_body(order_id, od, status, putR))

----------------------------------------------------------------------------
(* The HTTP layer: API key, lazily created service, response models *)

API_KEY == "your-secret-api-key-here"

\* the X-API-Key header of a request: absent, the configured key, another key
Headers == {None, Str(API_KEY), Str("wrong-key")}

\* a key check that lets every request through
verify_api_key_open(x_api_key) == Ret(x_api_key)

\* verify_api_key
verify_api_key(x_api_key) ==
    IF x_api_key # Str(API_KEY) THEN Raise("Invalid API key") ELSE Ret(x_api_key)

\* outcomes of TradeLockerService() -> connect(): missing credentials or a
\* failing TLAPI(...) raise, otherwise the handle is set
ConnectOutcomes == {Raise(m) : m \in ErrMsgs} \cup {Ret(Str("api"))}

\* a lookup that builds a new service for every request
get_trading_service_per_request(connR) ==
    IF connR.kind = "raise"
    THEN [out |-> connR, svc |-> "None", connects |-> 1]
    ELSE [out |-> Ret(Str("service")), svc |-> "service", connects |-> 1]

\* get_trading_service: the global is set only when the constructor returns
get_trading_service(connR) ==
    IF trading_service = "None"
    THEN IF connR.kind = "raise"
         THEN [out |-> connR, svc |-> "None", connects |-> 1]
         ELSE [out |-> Ret(Str("service")), svc |-> "service", connects |-> 1]
    ELSE [out |-> Ret(Str("service")), svc |-> trading_service, connects |-> 0]

\* a pydantic response model built from a result dict: required fields must
\* be there, optional ones default to None, other keys are dropped
ResponseModel(required, optional, result) ==
    IF ~(required \subseteq DOMAIN result)
    THEN Raise("validation error: field required")
    ELSE Ret([k \in required \cup optional |-> Get(result, k)])

OrderResponse(result) ==
    ResponseModel({"success", "timestamp"}, {"order_id", "status", "message", "error"}, result)

OrdersResponse(result) == ResponseModel({"success"}, {"orders", "error"}, result)

AccountsResponse(result) == ResponseModel({"success"}, {"accounts", "error"}, result)

InstrumentsResponse(result) == ResponseModel({"success"}, {"instruments", "error"}, result)

PositionsResponse(result) == ResponseModel({"success"}, {"positions", "error"}, result)

PriceResponse(result) ==
    ResponseModel({"success", "timestamp"},
                  {"symbol", "instrument_id", "ask_price", "bid_price", "error"}, result)

\* response_model=Dict[str, Any]: the result as it is
AnyDict(result) == Ret(result)

\* the handler's `return XResponse(**result)` for the response model it names
Response(model, result) ==
    CASE model = "OrderResponse"       -> OrderResponse(result)
      [] model = "OrdersResponse"      -> OrdersResponse(result)
      [] model = "AccountsResponse"    -> AccountsResponse(result)
      [] model = "InstrumentsResponse" -> InstrumentsResponse(result)
      [] model = "PositionsResponse"   -> PositionsResponse(result)
      [] model = "PriceResponse"       -> PriceResponse(result)
      [] model = "Dict"                -> AnyDict(result)

\* OrderRequest accepts the body: the required fields are there with their types
OrderRequest_valid(od) ==
    /\ {"symbol", "order_type", "side", "quantity"} \subseteq DOMAIN od
    /\ od["symbol"].t = "str" /\ od["order_type"].t = "str" /\ od["side"].t = "str"
    /\ od["quantity"].t = "num"

OrderRequest_fields ==
    {"symbol", "order_type", "side", "quantity", "price", "stop_price", "stop_loss",
     "take_profit", "stop_loss_type", "take_profit_type", "trailing_distance", "validity",
     "user_id"}

\* order.dict(): every field of OrderRequest, None (user_id: "default") where not given
OrderRequest_dict(od) ==
    [k \in OrderRequest_fields |->
        IF k \in DOMAIN od THEN od[k] ELSE IF k = "user_id" THEN Str("default") ELSE None]

NotCalled == [kind |-> "none"]

\* what a request leaves in `last`
Done(op, hdr, arg, resp, out, calls, connects, puts) ==
    [op |-> op, hdr |-> hdr, arg |-> arg, resp |-> resp, out |-> out, calls |-> calls,
     connects |-> connects, puts |-> puts]

Idle == Done("none", None, "", [status |-> 0], NotCalled, <<>>, 0, 0)

\* one endpoint: the key check (protected endpoints), the service lookup, the
\* service call r (made only when the lookup succeeds) and the response model
Endpoint(op, protected, hdr, arg, connR, r, model) ==
    IF protected /\ verify_api_key(hdr).kind = "raise"
    THEN [svc |-> trading_service,
          last |-> Done(op, hdr, arg, [status |-> 401, detail |-> "Invalid API key"],
                        NotCalled, <<>>, 0, 0)]
    ELSE
      LET g == get_trading_service(connR)
          failure(msg) == [status |-> 503, detail |-> "TradeLocker connection error: " \o msg]
      IN
      IF g.out.kind = "raise"
      THEN [svc |-> g.svc,
            last |-> Done(op, hdr, arg, failure(g.out.msg), NotCalled, <<>>, g.connects, 0)]
      ELSE IF r.out.kind = "raise"
      THEN [svc |-> g.svc,
            last |-> Done(op, hdr, arg, failure(r.out.msg), r.out, r.calls, g.connects, 0)]
      ELSE IF Response(model, r.out.val).kind = "raise"
      THEN [svc |-> g.svc,
            last |-> Done(op, hdr, arg, failure(Response(model, r.out.val).msg), r.out, r.calls,
                          g.connects, 0)]
      ELSE [svc |-> g.svc,
            last |-> Done(op, hdr, arg, [status |-> 200, body |-> Response(model, r.out.val).val],
                          r.out, r.calls, g.connects, 0)]

\* stands for the outcome of a call that an earlier failure keeps from being made
Skipped == [kind |-> "skipped"]

\* the outcomes to choose from for a call that follows the call with outcome r
After(r, outcomes) == IF r.kind \in {"raise", "skipped"} THEN {Skipped} ELSE outcomes

\* the outcomes to choose from for the connection attempt of a request with
\* header hdr: none when the key check rejects it or the service exists
Connects(protected, hdr) ==
    IF protected /\ verify_api_key(hdr).kind = "raise" THEN {Skipped}
    ELSE IF trading_service = "None" THEN ConnectOutcomes ELSE {NotCalled}

----------------------------------------------------------------------------
(* Actions: order creation *)

\* the result of the finished request leaves the process (log_requests
\* returns the response); what the request held is dropped
Respond ==
    /\ last # Idle
    /\ last' = Idle
    /\ UNCHANGED <<trading_service, connect_attempted, connected, tl_api, dynamodb, audit,
                   positions, hasRouteId, order_data>>

\* POST /orders
PostOrders ==
    /\ last = Idle
    /\ \E hdr \in Headers :
      \E connR \in Connects(TRUE, hdr) :
      \E instrR \in After(connR, InstrumentsOutcomes) :
      \E createR \in After(instrR, CreateOutcomes) :
        LET e == IF verify_api_key(hdr).kind = "return" /\ ~OrderRequest_valid(order_data)
                 THEN [svc |-> trading_service,
                       last |-> Done("POST /orders", hdr, "", [status |-> 422,
                                     detail |-> "request validation error"],
                                     NotCalled, <<>>, 0, 0)]
                 ELSE Endpoint("POST /orders", TRUE, hdr, "", connR,
                               TradeLockerService_create_order(
                                   OrderRequest_dict(order_data), instrR, createR),
                               "OrderResponse")
        IN  /\ trading_service' = e.svc /\ last' = e.last
            /\ connect_attempted' = (connect_attempted \/ e.last.connects > 0)
    /\ UNCHANGED <<connected, tl_api, dynamodb, audit, positions, hasRouteId, order_data>>

\* a direct call of TradeLockerService.create_order on the existing service
SvcCreateOrder ==
    /\ last = Idle
    /\ trading_service = "service"
    /\ \E instrR \in InstrumentsOutcomes :
         \E createR \in After(instrR, CreateOutcomes) :
           LET r == TradeLockerService_create_order(order_data, instrR, createR) IN
           last' = Done("TradeLockerService.create_order", None, "", [status |-> 0],
                        r.out, r.calls, 0, 0)
    /\ UNCHANGED <<trading_service, connect_attempted, connected, tl_api, dynamodb, audit,
                   positions, hasRouteId, order_data>>

\* a call of TradeLockerBroker.create_order
BrokerCreateOrder ==
    /\ last = Idle
    /\ \E instrR \in InstrumentsOutcomes :
         \E createR \in After(instrR, CreateOutcomes) :
           LET r == TradeLockerBroker_create_order(order_data, instrR, createR) IN
           last' = Done("TradeLockerBroker.create_order", None, "", [status |-> 0],
                        r.out, r.calls, 0, 0)
    /\ UNCHANGED <<trading_service, connect_attempted, connected, tl_api, dynamodb, audit,
                   positions, hasRouteId, order_data>>

\* a call of BaseBroker.validate_order_data
ValidateOrderData ==
    /\ last = Idle
    /\ last' = Done("validate_order_data", None, "", [status |-> 0],
                    validate_order_data(order_data), <<>>, 0, 0)
    /\ UNCHANGED <<trading_service, connect_attempted, connected, tl_api, dynamodb, audit,
                   positions, hasRouteId, order_data>>

\* a call of TradeLockerService.log_order on the existing service
LogOrder ==
    /\ last = Idle
    /\ trading_service = "service"
    /\ audit < MaxAudit
    /\ \E putR \in PutOutcomes :
         LET r == log_order("1", order_data, "created", putR) IN
         /\ audit' = audit + r.puts
         /\ last' = Done("TradeLockerService.log_order", None, "1", [status |-> 0],
                         r.out, r.calls, 0, r.puts)
    /\ UNCHANGED <<trading_service, connect_attempted, connected, tl_api, dynamodb, positions,
                   hasRouteId, order_data>>

----------------------------------------------------------------------------
(* Actions: the other endpoints *)

OrderIds == {"1", "9"}
Symbols == {"BTCUSD.TTF", "BTCUSD"}

\* what the endpoints below leave alone
EndpointFrame == UNCHANGED <<connected, tl_api, dynamodb, audit, hasRouteId, order_data>>

\* GET /orders
GetOrders ==
    /\ last = Idle
    /\ \E hdr \in Headers :
       \E connR \in Connects(TRUE, hdr) :
       \E upR \in After(connR, OrdersOutcomes) :
         LET e == Endpoint("GET /orders", TRUE, hdr, "", connR,
                           TradeLockerService_get_orders(upR), "OrdersResponse")
         IN  /\ trading_service' = e.svc /\ last' = e.last
             /\ connect_attempted' = (connect_attempted \/ e.last.connects > 0)
    /\ UNCHANGED positions /\ EndpointFrame

\* DELETE /orders/{order_id}
CancelOrder ==
    /\ last = Idle
    /\ \E hdr \in Headers, order_id \in OrderIds :
       \E connR \in Connects(TRUE, hdr) :
         LET e == Endpoint("DELETE /orders/{order_id}", TRUE, hdr, order_id, connR,
                           TradeLockerService_cancel_order(order_id), "OrderResponse")
         IN  /\ trading_service' = e.svc /\ last' = e.last
             /\ connect_attempted' = (connect_attempted \/ e.last.connects > 0)
    /\ UNCHANGED positions /\ EndpointFrame

\* GET /accounts
GetAccounts ==
    /\ last = Idle
    /\ \E hdr \in Headers :
       \E connR \in Connects(FALSE, hdr) :
       \E upR \in After(connR, AccountsOutcomes) :
         LET e == Endpoint("GET /accounts", FALSE, hdr, "", connR,
                           TradeLockerService_get_accounts(upR), "AccountsResponse")
         IN  /\ trading_service' = e.svc /\ last' = e.last
             /\ connect_attempted' = (connect_attempted \/ e.last.connects > 0)
    /\ UNCHANGED positions /\ EndpointFrame

\* GET /accounts/details
GetAccountDetails ==
    /\ last = Idle
    /\ \E hdr \in Headers :
       \E connR \in Connects(TRUE, hdr) :
       \E accR \in After(connR, AccountsOutcomes) :
       \E posR \in After(accR, AccountPositionsOutcomes(positions)) :
         LET e == Endpoint("GET /accounts/details", TRUE, hdr, "", connR,
                           TradeLockerService_get_account_details(accR, posR), "Dict")
         IN  /\ trading_service' = e.svc /\ last' = e.last
             /\ connect_attempted' = (connect_attempted \/ e.last.connects > 0)
    /\ UNCHANGED positions /\ EndpointFrame

\* GET /instruments
GetInstruments ==
    /\ last = Idle
    /\ \E hdr \in Headers :
       \E connR \in Connects(FALSE, hdr) :
       \E upR \in After(connR, InstrumentsOutcomes) :
         LET e == Endpoint("GET /instruments", FALSE, hdr, "", connR,
                           TradeLockerService_get_instruments(upR), "InstrumentsResponse")
         IN  /\ trading_service' = e.svc /\ last' = e.last
             /\ connect_attempted' = (connect_attempted \/ e.last.connects > 0)
    /\ UNCHANGED positions /\ EndpointFrame

\* GET /instruments/{symbol}/price
GetPrice ==
    /\ last = Idle
    /\ \E hdr \in Headers, symbol \in Symbols :
       \E connR \in Connects(FALSE, hdr) :
       \E instrR \in After(connR, InstrumentsOutcomes) :
       \E mdR \in After(instrR, MarketDataOutcomes) :
         LET e == Endpoint("GET /instruments/{symbol}/price", FALSE, hdr, symbol, connR,
                           TradeLockerService_get_current_price(symbol, instrR, mdR),
                           "PriceResponse")
         IN  /\ trading_service' = e.svc /\ last' = e.last
             /\ connect_attempted' = (connect_attempted \/ e.last.connects > 0)
    /\ UNCHANGED positions /\ EndpointFrame

\* GET /positions
GetPositions ==
    /\ last = Idle
    /\ \E hdr \in Headers :
       \E connR \in Connects(FALSE, hdr) :
       \E upR \in After(connR, PositionsOutcomes(positions)) :
         LET e == Endpoint("GET /positions", FALSE, hdr, "", connR,
                           TradeLockerService_get_positions(upR), "PositionsResponse")
         IN  /\ trading_service' = e.svc /\ last' = e.last
             /\ connect_attempted' = (connect_attempted \/ e.last.connects > 0)
    /\ UNCHANGED positions /\ EndpointFrame

\* the number position_id names, 0 when it names none
IdOf(position_id) ==
    IF ParseInt(position_id).kind = "return" THEN ParseInt(position_id).val ELSE 0

\* DELETE /positions/{position_id}
ClosePosition ==
    /\ last = Idle
    /\ \E hdr \in Headers, position_id \in PositionIds :
       \E connR \in Connects(TRUE, hdr) :
       \E pos1R \in After(connR, PositionsOutcomes(positions)) :
       \E closeR \in After(pos1R, CloseOutcomes) :
       \E pos2R \in After(closeR,
                          PositionsOutcomes(AfterClose(positions, IdOf(position_id), closeR))) :
       \E createR \in After(pos1R, CreateOutcomes) :
         LET e == Endpoint("DELETE /positions/{position_id}", TRUE, hdr, position_id, connR,
                           TradeLockerService_close_position(position_id, pos1R, closeR,
                                                             pos2R, createR),
                           "OrderResponse")
         IN  /\ trading_service' = e.svc
             /\ connect_attempted' = (connect_attempted \/ e.last.connects > 0)
             /\ last' = e.last
             /\ positions' = PositionsAfter(e.last.calls)
    /\ EndpointFrame

----------------------------------------------------------------------------
(* Actions: the broker object *)

BrokerOp(op, arg, r) ==
    /\ last' = Done(op, None, arg, [status |-> 0], r.out, r.calls, 0, 0)
    /\ UNCHANGED <<trading_service, connect_attempted, connected, tl_api, dynamodb, audit,
                   positions, hasRouteId, order_data>>

\* the outcomes to choose from for the broker's first upstream call
IfConnected(outcomes) == IF is_connected THEN outcomes ELSE {Skipped}

BrokerGetAccounts ==
    /\ last = Idle
    /\ \E upR \in IfConnected(AccountsOutcomes) :
         BrokerOp("TradeLockerBroker.get_accounts", "", TradeLockerBroker_get_accounts(upR))

BrokerGetAccountDetails ==
    /\ last = Idle
    /\ \E accR \in IfConnected(AccountsOutcomes) :
       \E posR \in After(accR, AccountPositionsOutcomes(positions)) :
         BrokerOp("TradeLockerBroker.get_account_details", "",
                  TradeLockerBroker_get_account_details(accR, posR))

BrokerGetInstruments ==
    /\ last = Idle
    /\ \E upR \in IfConnected(InstrumentsOutcomes) :
         BrokerOp("TradeLockerBroker.get_instruments", "",
                  TradeLockerBroker_get_instruments(upR))

BrokerGetCurrentPrice ==
    /\ last = Idle
    /\ \E symbol \in Symbols :
       \E instrR \in IfConnected(InstrumentsOutcomes) :
       \E priceR \in After(instrR, PriceOutcomes) :
         BrokerOp("TradeLockerBroker.get_current_price", symbol,
                  TradeLockerBroker_get_current_price(symbol, instrR, priceR))

BrokerGetOrders ==
    /\ last = Idle
    /\ \E upR \in IfConnected(OrdersOutcomes) :
         BrokerOp("TradeLockerBroker.get_orders", "", TradeLockerBroker_get_orders(upR))

BrokerCancelOrder ==
    /\ last = Idle
    /\ \E order_id \in OrderIds :
         BrokerOp("TradeLockerBroker.cancel_order", order_id,
                  TradeLockerBroker_cancel_order(order_id))

BrokerGetPositions ==
    /\ last = Idle
    /\ \E upR \in IfConnected(PositionsOutcomes(positions)) :
         BrokerOp("TradeLockerBroker.get_positions", "", TradeLockerBroker_get_positions(upR))

BrokerClosePosition ==
    /\ last = Idle
    /\ \E position_id \in PositionIds :
         BrokerOp("TradeLockerBroker.close_position", position_id,
                  TradeLockerBroker_close_position(position_id))

\* TradeLockerBroker.connect: a new handle on success; on failure the flag is
\* cleared and the handle left as it was
BrokerConnect ==
    /\ last = Idle
    /\ \E connR \in ConnectOutcomes :
         /\ connected' = (connR.kind = "return")
         /\ tl_api' = IF connR.kind = "return" THEN "api" ELSE tl_api
         /\ last' = Done("TradeLockerBroker.connect", None, "", [status |-> 0],
                         Ret(Bool(connR.kind = "return")), <<>>, 1, 0)
    /\ UNCHANGED <<trading_service, connect_attempted, dynamodb, audit, positions,
                   hasRouteId, order_data>>

\* TradeLockerBroker.disconnect
BrokerDisconnect ==
    /\ last = Idle
    /\ connected' = FALSE
    /\ tl_api' = "None"
    /\ last' = Done("TradeLockerBroker.disconnect", None, "", [status |-> 0],
                    Ret(Bool(TRUE)), <<>>, 0, 0)
    /\ UNCHANGED <<trading_service, connect_attempted, dynamodb, audit, positions,
                   hasRouteId, order_data>>

----------------------------------------------------------------------------
(* Specifications *)

\* the broker object after BaseBroker.__init__ ran connect(): connected with a
\* handle, or not connected without one
BrokerInit == connected \in BOOLEAN /\ tl_api = IF connected THEN "api" ELSE "None"

\* order creation over every intent
InitOrder ==
    /\ trading_service = "None"
    /\ connect_attempted = FALSE
    /\ BrokerInit
    /\ dynamodb = TRUE
    /\ audit = 0
    /\ positions = AllPositions
    /\ hasRouteId = TRUE
    /\ order_data \in Intents
    /\ last = Idle

NextOrder ==
    PostOrders \/ SvcCreateOrder \/ BrokerCreateOrder \/ ValidateOrderData \/ Respond

SpecOrder == InitOrder /\ [][NextOrder]_vars

\* the whole program on a few intents
Init ==
    /\ trading_service = "None"
    /\ connect_attempted = FALSE
    /\ BrokerInit
    /\ dynamodb \in BOOLEAN
    /\ audit = 0
    /\ positions = AllPositions
    /\ hasRouteId \in BOOLEAN
    /\ order_data \in SampleIntents
    /\ last = Idle

Next ==
    \/ PostOrders \/ GetOrders \/ CancelOrder \/ GetAccounts \/ GetAccountDetails
    \/ GetInstruments \/ GetPrice \/ GetPositions \/ ClosePosition
    \/ SvcCreateOrder \/ LogOrder
    \/ BrokerCreateOrder \/ BrokerGetAccounts \/ BrokerGetAccountDetails
    \/ BrokerGetInstruments \/ BrokerGetCurrentPrice \/ BrokerGetOrders
    \/ BrokerCancelOrder \/ BrokerGetPositions \/ BrokerClosePosition
    \/ BrokerConnect \/ BrokerDisconnect
    \/ ValidateOrderData
    \/ Respond

Spec == Init /\ [][Next]_vars

----------------------------------------------------------------------------
(* Properties.  Each is a predicate on `last`, the operation that has just *)
(* run, so an invariant speaks about every operation of every behaviour.   *)

CreateOrderOps ==
    {"POST /orders", "TradeLockerService.create_order", "TradeLockerBroker.create_order"}

ClosePositionOp == "DELETE /positions/{position_id}"

\* the upstream calls of fn the operation made
CallsTo(fn) == SelectSeq(last.calls, LAMBDA c : c.fn = fn)

\* the operation reached the service (or broker) method and this is what it returned
Returned == last.out.kind = "return"

\* the validity the specification asks for: the client's when one is supplied
\* (present and not null), else IOC for market and GTC for the other types
ExpectedValidity(od) ==
    IF Truthy(Get(od, "validity")) THEN od["validity"]
    ELSE IF Get(od, "order_type") = Str("market") THEN Str("IOC") ELSE Str("GTC")

\* C1: every order submitted upstream by create_order (service, POST /orders,
\* broker) carries the client's validity when one was supplied, else IOC for
\* market orders and GTC for limit, stop and stop_limit orders, whether the
\* validity field is absent or null.
C1_ValidityDefault ==
    last.op \in CreateOrderOps =>
      \A i \in 1..Len(CallsTo("create_order")) :
        CallsTo("create_order")[i].params["validity"] = ExpectedValidity(order_data)

\* the intent passes steps 1-3 of the normalizer
OtherwiseValid(od) ==
    /\ \A i \in 1..Len(required_fields) : required_fields[i] \in DOMAIN od
    /\ InList(od["order_type"], valid_order_types)
    /\ InList(od["side"], valid_sides)

\* C2: an intent that is valid but for a quantity <= 0 is answered by
\* create_order (service behind POST /orders or called directly, and the
\* connected broker) with success=false and the error "Quantity must be
\* greater than 0", and no order is submitted upstream.
C2_QuantityRejected ==
    ( /\ last.op \in CreateOrderOps
      /\ Returned
      /\ OtherwiseValid(order_data)
      /\ order_data["quantity"].t = "num" /\ order_data["quantity"].v <= 0
      /\ (last.op = "TradeLockerBroker.create_order" => is_connected) )
    => /\ last.out.val["success"] = Bool(FALSE)
       /\ Get(last.out.val, "error") = Str("Quantity must be greater than 0")
       /\ CallsTo("create_order") = <<>>

\* the request made the direct close call, the call returned, and the
\* re-query returned a position list
DirectCloseRequeried ==
    /\ last.op = ClosePositionOp
    /\ Len(last.calls) >= 3
    /\ last.calls[2].fn = "close_position" /\ last.calls[2].res.kind = "return"
    /\ last.calls[3].fn = "get_all_positions" /\ last.calls[3].res.kind = "return"

\* the re-queried list still holds the position the request names
StillListed ==
    \E j \in 1..Len(last.calls[3].res.val) : ToString(last.calls[3].res.val[j].id) = last.arg

\* C3: when the direct close call was made and the re-query no longer lists the
\* position, close_position returns success=true, status "closed", order_id the
\* string of the close call's result when it gave one (a value Python counts
\* as true) and the position id otherwise, and submits no order upstream.
C3_VerifiedDirectClose ==
    (DirectCloseRequeried /\ ~StillListed)
    => /\ Returned
       /\ last.out.val["success"] = Bool(TRUE)
       /\ last.out.val["status"] = Str("closed")
       /\ last.out.val["order_id"] =
            (IF Truthy(last.calls[2].res.val) THEN Str(PyStr(last.calls[2].res.val))
             ELSE Str(last.arg))
       /\ CallsTo("create_order") = <<>>
       /\ Len(last.calls) = 3

C3_Witness ==
    /\ DirectCloseRequeried /\ ~StillListed
    /\ last.calls[2].res.val = Num(MaxOrderId)
    /\ last.out.val["order_id"] = Str(ToString(MaxOrderId))

\* C4: when the direct close call returned without error and the re-query
\* still lists the position, close_position submits the offsetting order, and
\* when that order is accepted it returns success=true with the message that
\* the original position remains for audit.
C4_FallThroughToOffsettingOrder ==
    (DirectCloseRequeried /\ StillListed)
    => /\ Len(last.calls) = 4
       /\ last.calls[4].fn = "create_order"
       /\ Returned
       /\ (last.calls[4].res.kind = "return" =>
             /\ last.out.val["success"] = Bool(TRUE)
             /\ last.out.val["status"] = Str("closed")
             /\ last.out.val["message"] =
                  Str("Position closed by creating opposite order "
                      \o PyStr(last.calls[4].res.val)
                      \o " (original position remains for audit)"))

C4_Witness ==
    /\ DirectCloseRequeried /\ StillListed
    /\ Len(last.calls) = 4
    /\ last.calls[4].res = Ret(Num(1))
    /\ last.out.val["success"] = Bool(TRUE)

\* the first position query returned a list that holds no position with the
\* id the request names
NotListed ==
    /\ last.op = ClosePositionOp
    /\ Len(last.calls) >= 1
    /\ last.calls[1].res.kind = "return"
    /\ \A j \in 1..Len(last.calls[1].res.val) :
         ToString(last.calls[1].res.val[j].id) # last.arg

\* C5: when the position id matches no position of the upstream list,
\* close_position returns success=false with error "Position {id} not found"
\* and makes neither the upstream close_position nor the upstream create_order
\* call.
C5_UnknownPosition ==
    NotListed
    => /\ Returned
       /\ last.out.val["success"] = Bool(FALSE)
       /\ Get(last.out.val, "error") = Str("Position " \o last.arg \o " not found")
       /\ CallsTo("close_position") = <<>>
       /\ CallsTo("create_order") = <<>>

\* POST /orders answered with a created order
OrderCreated ==
    /\ last.op = "POST /orders"
    /\ last.resp.status = 200
    /\ last.resp.body["success"] = Bool(TRUE)

\* C6: with the audit store available, a successful POST /orders writes exactly
\* one OrderAuditRecord and a failed one writes none.
C6_AuditOncePerCreatedOrder ==
    (last.op = "POST /orders" /\ dynamodb)
    => last.puts = (IF OrderCreated THEN 1 ELSE 0)

ServiceOps ==
    {"POST /orders", "GET /orders", "DELETE /orders/{order_id}", "GET /accounts",
     "GET /accounts/details", "GET /instruments", "GET /instruments/{symbol}/price",
     "GET /positions", ClosePositionOp, "TradeLockerService.create_order"}

BrokerOps ==
    {"TradeLockerBroker.create_order", "TradeLockerBroker.get_accounts",
     "TradeLockerBroker.get_account_details", "TradeLockerBroker.get_instruments",
     "TradeLockerBroker.get_current_price", "TradeLockerBroker.get_orders",
     "TradeLockerBroker.cancel_order", "TradeLockerBroker.get_positions",
     "TradeLockerBroker.close_position"}

\* the operation is one of the nine service operations and was entered
Entered == last.op \in ServiceOps \cup BrokerOps /\ last.out # NotCalled

\* C7: every result a service operation returns holds 'success' and
\* 'timestamp', and holds 'error' whenever success is false.
C7_Envelope ==
    (Entered /\ Returned)
    => /\ {"success", "timestamp"} \subseteq DOMAIN last.out.val
       /\ (last.out.val["success"] = Bool(FALSE) => "error" \in DOMAIN last.out.val)

\* the error text carries the failure message m
Carries(error, m) == error = Str(m) \/ error = Str("Failed to close position: " \o m)

\* the i-th upstream call failed
Failed(i) == last.calls[i].res.kind = "raise"

\* the calls whose failure the code answers with a fallback: the market data
\* lookup of get_current_price (placeholder estimate), and the direct close and
\* the re-query of close_position (offsetting order)
HasFallback(i) ==
    \/ last.calls[i].fn = "get_market_data"
    \/ last.op = ClosePositionOp /\ last.calls[i].fn = "close_position"
    \/ last.op = ClosePositionOp /\ last.calls[i].fn = "get_all_positions" /\ i > 1

\* the statement of the specification for C8: no operation raises, and
\* whichever upstream call fails the result is success=false with an error
\* that carries the failure message
C8_Original ==
    Entered
    => /\ Returned
       /\ \A i \in 1..Len(last.calls) :
            Failed(i) => /\ last.out.val["success"] = Bool(FALSE)
                         /\ "error" \in DOMAIN last.out.val
                         /\ Carries(last.out.val["error"], last.calls[i].res.msg)

\* C8: no service or broker operation raises to its caller; a failing upstream
\* call that has no fallback makes the operation return success=false, with
\* an error that carries the failure message (the broker leaves the error
\* field out when the message is empty).  A failing call that has a fallback
\* does not end the operation.
C8_NeverRaises ==
    Entered
    => /\ Returned
       /\ \A i \in 1..Len(last.calls) :
            (Failed(i) /\ ~HasFallback(i)) =>
              /\ last.out.val["success"] = Bool(FALSE)
              /\ IF "error" \in DOMAIN last.out.val
                 THEN Carries(last.out.val["error"], last.calls[i].res.msg)
                 ELSE last.op \in BrokerOps /\ last.calls[i].res.msg = ""

C8_Witness ==
    /\ last.op = "GET /positions"
    /\ Len(last.calls) = 1 /\ Failed(1)
    /\ Returned
    /\ last.out.val["success"] = Bool(FALSE)
    /\ last.out.val["error"] = Str("upstream failure")

\* C9: whenever the upstream accepts the submitted order and returns its
\* identifier, create_order (service and broker) returns success=true, order_id
\* the string of the identifier and status "created".
C9_AcceptedOrderReported ==
    ( /\ last.op \in CreateOrderOps
      /\ CallsTo("create_order") # <<>>
      /\ Accepted(CallsTo("create_order")[1].res) )
    => /\ Returned
       /\ last.out.val["success"] = Bool(TRUE)
       /\ Get(last.out.val, "order_id") =
            Str(ToString(CallsTo("create_order")[1].res.val.v))
       /\ Get(last.out.val, "status") = Str("created")

HttpOps ==
    {"POST /orders", "GET /orders", "DELETE /orders/{order_id}", "GET /accounts",
     "GET /accounts/details", "GET /instruments", "GET /instruments/{symbol}/price",
     "GET /positions", ClosePositionOp}

\* the request's X-API-Key header is missing or is not the configured key
BadKey == last.op \in HttpOps /\ last.hdr # Str(API_KEY)

\* C10: a request whose X-API-Key is missing or wrong never causes an upstream
\* create_order or close_position call; POST /orders, DELETE /orders/{id} and
\* DELETE /positions/{id} answer it with 401 before the service is looked up,
\* while GET /accounts, /instruments, /positions and /instruments/{symbol}/price
\* serve it.
C10_KeyGuardsMutations ==
    BadKey
    => /\ CallsTo("create_order") = <<>>
       /\ CallsTo("close_position") = <<>>
       /\ (last.op \in {"POST /orders", "DELETE /orders/{order_id}", ClosePositionOp}
             => /\ last.resp.status = 401
                /\ last.out = NotCalled
                /\ last.connects = 0
                /\ last.calls = <<>>)
       /\ (last.op \in {"GET /accounts", "GET /instruments", "GET /positions",
                        "GET /instruments/{symbol}/price"}
             => /\ last.resp.status \in {200, 503}
                /\ (last.resp.status = 200 <=> Returned))

C10_Witness ==
    /\ last.op = ClosePositionOp
    /\ last.hdr = Str("wrong-key")
    /\ last.arg = "1"
    /\ last.resp.status = 401
    /\ positions = AllPositions

\* create_order fetched the catalog and the intent names a symbol
LookedUp ==
    /\ last.op \in CreateOrderOps
    /\ CallsTo("get_all_instruments") # <<>>
    /\ CallsTo("get_all_instruments")[1].res.kind = "return"
    /\ "symbol" \in DOMAIN order_data

\* the catalog rows whose symbol is exactly the intent's symbol
ExactRows ==
    LET rows == CallsTo("get_all_instruments")[1].res.val IN
    {j \in 1..Len(rows) : rows[j].name = order_data["symbol"].s
                          /\ rows[j].symbol = order_data["symbol"].s}

\* C11: create_order resolves the instrument by an exact, case-sensitive match
\* of the intent's symbol against the catalog: a prefix or a case variant of a
\* catalog entry matches nothing, and when nothing matches the result is
\* success=false with error "Instrument {symbol} not found" and no order is
\* submitted upstream; an order that is submitted names the matching entry.
C11_ExactSymbolMatch ==
    LookedUp
    => IF ExactRows = {}
       THEN /\ Returned
            /\ last.out.val["success"] = Bool(FALSE)
            /\ Get(last.out.val, "error") =
                 Str("Instrument " \o order_data["symbol"].s \o " not found")
            /\ CallsTo("create_order") = <<>>
       ELSE \A i \in 1..Len(CallsTo("create_order")) :
              \E j \in ExactRows :
                LET row == CallsTo("get_all_instruments")[1].res.val[j] IN
                CallsTo("create_order")[i].params["instrument_id"]
                  \in {Num(row.id), Num(row.tradableInstrumentId)}

C11_Witness ==
    /\ LookedUp
    /\ order_data["symbol"] = Str("btcusd.ttf")
    /\ last.op = "TradeLockerBroker.create_order"
    /\ last.out.val["error"] = Str("Instrument btcusd.ttf not found")

AccountDetailsOps == {"GET /accounts/details", "TradeLockerBroker.get_account_details"}

\* get_account_details got a non-empty account list and the position frame
Computed ==
    /\ last.op \in AccountDetailsOps
    /\ Len(last.calls) = 2
    /\ last.calls[1].res.kind = "return" /\ last.calls[1].res.val # <<>>
    /\ last.calls[2].res.kind = "return"

\* the account list and the position frame the upstream returned
AccountRows == last.calls[1].res.val
OpenPositions == last.calls[2].res.val

RECURSIVE SumSeq(_)
SumSeq(seq) == IF seq = <<>> THEN 0 ELSE Head(seq) + SumSeq(Tail(seq))

\* the unrealized P&L a position carries, 0 when it carries none
PnlOf(row) ==
    IF "unrealizedPl" \in DOMAIN row THEN row["unrealizedPl"]
    ELSE IF "unrealizedPnl" \in DOMAIN row THEN row["unrealizedPnl"]
    ELSE 0

\* C12: the equity get_account_details returns is the first account's balance
\* plus the sum of the unrealized P&L of every open position that carries one,
\* whether or not the position also carries quantity and average price.
C12_Equity ==
    Computed
    => /\ Returned
       /\ last.out.val["success"] = Bool(TRUE)
       /\ last.out.val["equity"] =
            Num(AccountRows[1].accountBalance
                + SumSeq([i \in 1..Len(OpenPositions) |-> PnlOf(OpenPositions[i])]))

\* |qty x avgPrice| of a position that has both fields, 0 otherwise
NotionalOf(row) ==
    IF "qty" \in DOMAIN row /\ "avgPrice" \in DOMAIN row
    THEN (IF row["qty"] * row["avgPrice"] < 0 THEN -(row["qty"] * row["avgPrice"])
          ELSE row["qty"] * row["avgPrice"])
    ELSE 0

\* numerator and denominator of a returned number
Numer(x) == IF x.t = "rat" THEN x.n ELSE x.v
Denom(x) == IF x.t = "rat" THEN x.d ELSE 1

\* the returned number x is n/d
IsRatio(x, n, d) == Numer(x) * d = n * Denom(x)

\* C13: total_positions_value is the sum of |qty x avgPrice| over the positions
\* that have both fields, margin_used is 1% of it, and margin_available and
\* free_margin are the balance minus margin_used.
C13_MarginUsed ==
    Computed
    => LET total == SumSeq([i \in 1..Len(OpenPositions) |-> NotionalOf(OpenPositions[i])])
           balance == last.out.val["balance"].v
       IN  /\ last.out.val["total_positions_value"] = Num(total)
           /\ IsRatio(last.out.val["margin_used"], total, 100)
           /\ IsRatio(last.out.val["margin_available"], 100 * balance - total, 100)
           /\ last.out.val["free_margin"] = last.out.val["margin_available"]

\* balance 1000 and one position of quantity 2 at average price 100
C13_Witness ==
    /\ Computed
    /\ last.op = "GET /accounts/details"
    /\ AccountRows[1].accountBalance = 1000
    /\ Len(OpenPositions) = 1
    /\ NotionalOf(OpenPositions[1]) = 200
    /\ last.out.val["total_positions_value"] = Num(200)
    /\ last.out.val["margin_used"] = Num(2)
    /\ last.out.val["margin_available"] = Num(998)

\* C14: margin_level is equity / margin_used x 100 when margin_used > 0 and is
\* exactly 0 when margin_used is 0; the operation succeeds in both cases.
C14_MarginLevel ==
    Computed
    => LET used == last.out.val["margin_used"]
           equity == last.out.val["equity"].v
       IN  /\ Returned
           /\ last.out.val["success"] = Bool(TRUE)
           /\ Numer(used) >= 0
           /\ IF Numer(used) > 0
              THEN IsRatio(last.out.val["margin_level"],
                           equity * 100 * Denom(used), Numer(used))
              ELSE last.out.val["margin_level"] = Num(0)

\* open positions whose notional sums to 0
C14_Witness ==
    /\ Computed
    /\ Len(OpenPositions) = 2
    /\ last.out.val["success"] = Bool(TRUE)
    /\ last.out.val["margin_used"] = Num(0)
    /\ last.out.val["margin_level"] = Num(0)

\* C15: with an empty account list get_account_details returns success=false
\* with error "No accounts found" and does not query positions; with a
\* non-empty list the account fields and the balance behind the derived
\* fields are those of the first account.
C15_FirstAccountOnly ==
    ( /\ last.op \in AccountDetailsOps
      /\ last.calls # <<>>
      /\ last.calls[1].res.kind = "return" )
    => IF last.calls[1].res.val = <<>>
       THEN /\ Returned
            /\ last.out.val["success"] = Bool(FALSE)
            /\ Get(last.out.val, "error") = Str("No accounts found")
            /\ Len(last.calls) = 1
       ELSE /\ Len(last.calls) = 2
            /\ last.calls[2].fn = "get_all_positions"
            /\ (last.calls[2].res.kind = "return" =>
                  /\ last.out.val["account_id"] = Num(AccountRows[1].id)
                  /\ last.out.val["account_name"] = Str(AccountRows[1].name)
                  /\ last.out.val["currency"] = Str(AccountRows[1].currency)
                  /\ last.out.val["account_status"] = Str(AccountRows[1].status)
                  /\ last.out.val["balance"] = Num(AccountRows[1].accountBalance)
                  /\ IsRatio(last.out.val["margin_available"],
                             100 * AccountRows[1].accountBalance
                             - last.out.val["total_positions_value"].v, 100))

C15_Witness ==
    /\ Computed
    /\ Len(AccountRows) = 2
    /\ AccountRows[2].accountBalance # AccountRows[1].accountBalance
    /\ last.out.val["account_id"] = Num(1)
    /\ last.out.val["balance"] = Num(1000)

\* the required fields the intent does not hold, in the order symbol,
\* order_type, side, quantity
MissingFields ==
    SelectSeq(<<"symbol", "order_type", "side", "quantity">>,
              LAMBDA f : f \notin DOMAIN order_data)

RECURSIVE CommaList(_)
CommaList(names) ==
    IF Len(names) = 0 THEN ""
    ELSE IF Len(names) = 1 THEN names[1]
    ELSE names[1] \o ", " \o CommaList(Tail(names))

\* the error that lists exactly the missing fields
MissingFieldsError == Str("Missing required fields: " \o CommaList(MissingFields))

\* the operation returned success=false with the error that lists the missing fields
RejectedAsMissing ==
    /\ Returned
    /\ last.out.val["success"] = Bool(FALSE)
    /\ Get(last.out.val, "error") = MissingFieldsError

\* the statement of the specification for C16: for an intent that misses
\* required fields validate_order_data returns the error that lists exactly
\* them, and TradeLockerBroker.create_order returns that error without an
\* upstream create_order call
C16_Original ==
    MissingFields # <<>>
    => /\ last.op = "validate_order_data" => RejectedAsMissing
       /\ last.op = "TradeLockerBroker.create_order" =>
            RejectedAsMissing /\ CallsTo("create_order") = <<>>

\* C16: for an intent that misses required fields validate_order_data returns
\* success=false with the error that lists exactly the missing fields; the
\* connected TradeLockerBroker.create_order returns that error, a broker that
\* is not connected returns "Not connected to TradeLocker", and neither makes
\* an upstream call.
C16_MissingFields ==
    MissingFields # <<>>
    => /\ last.op = "validate_order_data" => RejectedAsMissing
       /\ last.op = "TradeLockerBroker.create_order" =>
            /\ last.calls = <<>>
            /\ Returned
            /\ last.out.val["success"] = Bool(FALSE)
            /\ Get(last.out.val, "error") =
                 (IF is_connected THEN MissingFieldsError
                  ELSE Str("Not connected to TradeLocker"))

C16_Witness ==
    /\ last.op = "TradeLockerBroker.create_order"
    /\ is_connected
    /\ DOMAIN order_data = {"order_type", "quantity"}
    /\ last.out.val["error"] = Str("Missing required fields: symbol, side")

\* close_position submitted the offsetting order
OffsettingSubmitted ==
    /\ last.op = ClosePositionOp
    /\ CallsTo("create_order") # <<>>

\* the offsetting order call, the last upstream call of the request
Offsetting == last.calls[Len(last.calls)]

\* C17: when the offsetting order submission fails, after the direct close was
\* skipped, failed, or left the position open, close_position returns
\* success=false with error "Failed to close position: {detail}", detail being
\* the failure message of the offsetting order.
C17_OffsettingFailure ==
    (OffsettingSubmitted /\ Offsetting.res.kind = "raise")
    => /\ Offsetting.fn = "create_order"
       /\ Len(CallsTo("create_order")) = 1
       /\ Returned
       /\ last.out.val["success"] = Bool(FALSE)
       /\ last.out.val["error"] = Str("Failed to close position: " \o Offsetting.res.msg)

\* the direct close failed and then the offsetting order failed
C17_Witness ==
    /\ OffsettingSubmitted
    /\ Len(last.calls) = 3
    /\ last.calls[2].fn = "close_position" /\ last.calls[2].res.kind = "raise"
    /\ Offsetting.res = Raise("upstream failure")
    /\ last.out.val["error"] = Str("Failed to close position: upstream failure")

\* the row of the position the request names, as the first query returned it
ClosedRow ==
    LET rows == last.calls[1].res.val IN
    rows[CHOOSE j \in 1..Len(rows) : ToString(rows[j].id) = last.arg]

\* log_order returned None; without a store it attempted no put, and a put
\* that failed or a record that could not be built wrote nothing
LoggedQuietly ==
    /\ last.out = Ret(None)
    /\ last.puts \in {0, 1}
    /\ (~dynamodb => last.calls = <<>> /\ last.puts = 0)
    /\ (MissingFields # <<>> => last.calls = <<>> /\ last.puts = 0)
    /\ (last.calls # <<>> /\ last.calls[1].res.kind = "raise" => last.puts = 0)

\* C18: log_order never raises and changes nothing but the audit store: it
\* returns None; when the store is unavailable the write is skipped, and
\* when the put or building the record fails the failure is discarded; the
\* service, the connection and the upstream state are as they were.
C18_LogOrderNeverRaises ==
    [][ last'.op = "TradeLockerService.log_order"
        => /\ LoggedQuietly'
           /\ audit' = audit + last'.puts
           /\ UNCHANGED <<trading_service, connect_attempted, connected, tl_api, dynamodb,
                          positions, hasRouteId, order_data>> ]_vars

\* the put failed and log_order returned None
C18_Witness ==
    /\ last.op = "TradeLockerService.log_order"
    /\ dynamodb
    /\ Len(last.calls) = 1
    /\ last.calls[1].fn = "put_item"
    /\ last.calls[1].res = Raise("upstream failure")
    /\ last.out = Ret(None)
    /\ last.puts = 0

\* GET /instruments/{symbol}/price answered with the placeholder estimate: the
\* market data lookup failed or gave no quote
EstimateServed ==
    /\ last.op = "GET /instruments/{symbol}/price"
    /\ last.resp.status = 200
    /\ Len(last.calls) = 2
    /\ last.calls[2].fn = "get_market_data"
    /\ (last.calls[2].res.kind = "raise" \/ last.calls[2].res.val.t # "quote")

\* the response the caller receives for a real upstream quote with the
\* symbol, the instrument and the prices of the response body b
RealQuoteResponse(b) ==
    [success |-> Bool(TRUE),
     symbol |-> b["symbol"],
     instrument_id |-> b["instrument_id"],
     ask_price |-> b["ask_price"],
     bid_price |-> b["bid_price"],
     error |-> None,
     timestamp |-> b["timestamp"]]

\* C19: whenever GET /instruments/{symbol}/price answers with the placeholder
\* estimate, the response the caller receives is marked as an estimate: it
\* is not the response a real upstream quote with the same prices would get.
C19_EstimateMarked ==
    EstimateServed
    => /\ last.resp.body["success"] = Bool(TRUE)
       /\ last.resp.body # RealQuoteResponse(last.resp.body)

\* C20: the offsetting order close_position builds has the side opposite to
\* the position's (sell for buy, buy for sell), the absolute value of the
\* position's quantity, type market, validity IOC and the position's own
\* tradable instrument id.
C20_OffsettingOrderParams ==
    OffsettingSubmitted
    => /\ Offsetting.fn = "create_order"
       /\ ClosedRow.side \in {"buy", "sell"}
       /\ Offsetting.params =
            [instrument_id |-> Num(ClosedRow.tradableInstrumentId),
             quantity |-> Num(IF ClosedRow.qty < 0 THEN -ClosedRow.qty ELSE ClosedRow.qty),
             side |-> Str(IF ClosedRow.side = "buy" THEN "sell" ELSE "buy"),
             type_ |-> Str("market"),
             validity |-> Str("IOC")]

\* a short position of quantity -3 closed with a buy of 3
C20_Witness ==
    /\ OffsettingSubmitted
    /\ last.arg = "2"
    /\ ClosedRow.side = "sell" /\ ClosedRow.qty = -3
    /\ Offsetting.params["side"] = Str("buy")
    /\ Offsetting.params["quantity"] = Num(3)
    /\ Offsetting.params["instrument_id"] = Num(102)

\* a request that got past the key check and the request body validation, and
\* so went through get_trading_service, has just run
LookedUpService == last.op \in HttpOps /\ last.resp.status \notin {401, 422}

\* C21 as stated: across any sequence of requests the upstream connection
\* (TradeLockerService construction) is attempted at most once: after a
\* request has constructed the service no request triggers a new connection
\* attempt.
C21_Original ==
    [][ (connect_attempted /\ LookedUpService' /\ last # last')
          => last'.connects = 0 ]_vars

\* C21, amended: the upstream connection is created at most once; a request
\* constructs the service exactly when there is none yet, so once a
\* construction has succeeded the handle stays and every later request reuses
\* it without a connection attempt, while after a failed construction the
\* next request attempts it again.
C21_ConnectOnce ==
    [][ /\ (trading_service = "service" => trading_service' = "service")
        /\ (LookedUpService' /\ last # last'
              => /\ last'.connects = (IF trading_service = "None" THEN 1 ELSE 0)
                 /\ (trading_service = "service" => last'.out # NotCalled)) ]_vars

\* a request served by the handle an earlier request created
C21_Witness ==
    /\ last.op = "GET /positions"
    /\ trading_service = "service"
    /\ last.connects = 0
    /\ last.resp.status = 200

\* the upstream functions the request called
CalledFns == {last.calls[i].fn : i \in 1..Len(last.calls)}

\* C22: within a single request no upstream mutating operation is invoked
\* more than once, whatever failures occur: at most one create_order, at most
\* one close_position; the only upstream call made twice is the position
\* query of close_position, whose second call directly follows a direct close
\* that returned.
C22_NoRetries ==
    last.op \in ServiceOps
    => /\ Len(CallsTo("create_order")) <= 1
       /\ Len(CallsTo("close_position")) <= 1
       /\ \A fn \in CalledFns \ {"get_all_positions"} : Len(CallsTo(fn)) = 1
       /\ Len(CallsTo("get_all_positions")) <= 2
       /\ Len(CallsTo("get_all_positions")) = 2
            => /\ last.op = ClosePositionOp
               /\ last.calls[1].fn = "get_all_positions"
               /\ last.calls[2].fn = "close_position"
               /\ last.calls[2].res.kind = "return"
               /\ last.calls[3].fn = "get_all_positions"

\* a close in which the direct close and the offsetting order both fail
C22_Witness ==
    /\ last.op = ClosePositionOp
    /\ Len(last.calls) = 3
    /\ last.calls[2].fn = "close_position" /\ last.calls[2].res.kind = "raise"
    /\ last.calls[3].fn = "create_order" /\ last.calls[3].res.kind = "raise"
    /\ last.resp.status = 200
    /\ last.resp.body["success"] = Bool(FALSE)

\* TradeLockerService.create_order ran, behind POST /orders or called directly
ServiceCreateOrderOps == {"POST /orders", "TradeLockerService.create_order"}

\* the intent supplies field k: it is there and not null
Supplies(od, k) == k \in DOMAIN od /\ od[k] # None

\* C23: for every limit intent and every stop_limit intent that supplies a
\* price, the parameters TradeLockerService.create_order submits upstream
\* include that price, whatever the other optional fields are.  Stated for
\* the prices an order can carry, those above 0.
C23_PriceSubmitted ==
    ( /\ last.op \in ServiceCreateOrderOps
      /\ Supplies(order_data, "order_type")
      /\ order_data["order_type"] \in {Str("limit"), Str("stop_limit")}
      /\ Supplies(order_data, "price")
      /\ order_data["price"].v > 0 )
    => \A i \in 1..Len(CallsTo("create_order")) :
         /\ "price" \in DOMAIN CallsTo("create_order")[i].params
         /\ CallsTo("create_order")[i].params["price"] = order_data["price"]

\* the parameters of the orders the operation submitted upstream
SubmittedParams ==
    {CallsTo("create_order")[i].params : i \in 1..Len(CallsTo("create_order"))}

\* C24: create_order (service and broker) submits no limit or stop_limit
\* order without a price parameter and no stop or stop_limit order without a
\* stop_price parameter, and no market order with a price or a stop_price
\* parameter.
C24_PricePresentIffNeeded ==
    last.op \in CreateOrderOps
    => \A p \in SubmittedParams :
         /\ p["type_"] \in {Str("limit"), Str("stop_limit")} => "price" \in DOMAIN p
         /\ p["type_"] \in {Str("stop"), Str("stop_limit")} => "stop_price" \in DOMAIN p
         /\ p["type_"] = Str("market") => {"price", "stop_price"} \cap DOMAIN p = {}

\* the intent passes every check the claim lists
ValidIntent ==
    /\ MissingFields = <<>>
    /\ order_data["order_type"] \in {Str("market"), Str("limit"), Str("stop"), Str("stop_limit")}
    /\ order_data["side"] \in {Str("buy"), Str("sell")}
    /\ order_data["quantity"].t = "num" /\ order_data["quantity"].v > 0

\* the error of the first failing check, in the order missing fields,
\* order_type, side, quantity
FirstFailingCheck ==
    IF MissingFields # <<>> THEN MissingFieldsError
    ELSE IF order_data["order_type"] \notin
              {Str("market"), Str("limit"), Str("stop"), Str("stop_limit")}
    THEN Str("Invalid order_type. Must be one of: market, limit, stop, stop_limit")
    ELSE IF order_data["side"] \notin {Str("buy"), Str("sell")}
    THEN Str("Invalid side. Must be one of: buy, sell")
    ELSE Str("Quantity must be greater than 0")

\* C25: validate_order_data returns success=true with the intent unchanged
\* as data if and only if all of symbol, order_type, side and quantity are
\* present, order_type and side are of their valid sets and quantity > 0;
\* otherwise it returns success=false with the error of the first failing
\* check.
C25_ValidateOrderData ==
    last.op = "validate_order_data"
    => /\ Returned
       /\ last.out.val =
            IF ValidIntent
            THEN [success |-> Bool(TRUE), data |-> PyDict(order_data)]
            ELSE [success |-> Bool(FALSE), error |-> FirstFailingCheck]

\* the direct close call of the request was made and returned without error
DirectCloseReturned ==
    /\ last.op = ClosePositionOp
    /\ CallsTo("close_position") # <<>>
    /\ CallsTo("close_position")[1].res.kind = "return"

\* C26: close_position submits no offsetting order for a position whose
\* direct close call returned without error unless the re-query that follows
\* returned and still lists the position; a direct close that returned,
\* followed by a failing re-query, leads to no offsetting order.
C26_OffsettingOnlyIfStillListed ==
    (DirectCloseReturned /\ OffsettingSubmitted)
    => /\ DirectCloseRequeried
       /\ StillListed

CancelOrderOps == {"DELETE /orders/{order_id}", "TradeLockerBroker.cancel_order"}

\* the result says the order is cancelled
ReportsCancelled ==
    /\ Returned
    /\ last.out.val["success"] = Bool(TRUE)
    /\ Get(last.out.val, "status") = Str("cancelled")
    /\ Get(last.out.val, "order_id") = Str(last.arg)

\* C27 as stated: cancel_order, once the request reaches it, invokes no
\* upstream operation and returns success=true with status "cancelled" for
\* every order id, for the service and for the broker alike.
C27_Original ==
    (last.op \in CancelOrderOps /\ last.resp.status \notin {401, 503})
    => last.calls = <<>> /\ ReportsCancelled

\* C27, amended: cancel_order invokes no upstream operation and changes
\* nothing at the broker; TradeLockerService.cancel_order, once DELETE
\* /orders/{id} reaches it, and TradeLockerBroker.cancel_order on a connected
\* broker return success=true with status "cancelled" for every order id; on
\* a broker that is not connected the result is success=false with error
\* "Not connected to TradeLocker".
C27_CancelIsPlaceholder ==
    [][ last'.op \in CancelOrderOps
        => /\ last'.calls = <<>>
           /\ UNCHANGED <<positions, audit, connected, tl_api>>
           /\ (last'.op = "DELETE /orders/{order_id}" /\ last'.out # NotCalled
                 => ReportsCancelled' /\ last'.resp.status = 200)
           /\ (last'.op = "TradeLockerBroker.cancel_order"
                 => /\ is_connected => ReportsCancelled'
                    /\ ~is_connected => last'.out = Ret(NotConnected)) ]_vars

\* an order id no open order has is reported cancelled
C27_Witness ==
    /\ last.op = "DELETE /orders/{order_id}"
    /\ last.arg = "9"
    /\ last.calls = <<>>
    /\ last.resp.status = 200
    /\ last.resp.body["status"] = Str("cancelled")

\* C28: for TradeLockerBroker, is_connected() is true after a connect that
\* succeeded, false after a connect that failed and after a disconnect, and
\* no other operation changes it, so it is true exactly when the most recent
\* connect succeeded and no disconnect followed; while it is false every
\* service operation returns success=false with error "Not connected to
\* TradeLocker" without an upstream call and without a connection attempt.
C28_ConnectionState ==
    [][ /\ last'.op = "TradeLockerBroker.connect"
          => (is_connected' <=> last'.out = Ret(Bool(TRUE)))
        /\ last'.op = "TradeLockerBroker.disconnect" => ~is_connected'
        /\ last'.op \notin {"TradeLockerBroker.connect", "TradeLockerBroker.disconnect"}
          => UNCHANGED <<connected, tl_api>>
        /\ (last'.op \in BrokerOps /\ ~is_connected)
          => /\ last'.out = Ret([success |-> Bool(FALSE),
                                 error |-> Str("Not connected to TradeLocker"),
                                 timestamp |-> Now])
             /\ last'.calls = <<>>
             /\ last'.connects = 0 ]_vars

\* a service operation refused after a connect that succeeded was followed by
\* a connect that failed: the earlier handle is still there
C28_Witness ==
    /\ last.op = "TradeLockerBroker.get_positions"
    /\ ~connected /\ tl_api = "api"
    /\ last.out = Ret(NotConnected)
    /\ last.calls = <<>>

====
